---- MODULE Spec2Model ----
(***************************************************************************)
(* The simulated wireQ of dpa-digitalwires-wireq-example: MockQueue        *)
(* (src/test/mock_wireq.py), mirrored by RequestHandler                    *)
(* (src/test/local_server/wireq_fake_server.py).                           *)
(*                                                                         *)
(* A queue entry is the dict {'entry': payload, 'visible': bool}.  Python  *)
(* compares dicts by value, so list.remove and == on entries are modelled  *)
(* on the fields entry and visible only.  The field id is the arrival      *)
(* position of the entry; it is bookkeeping of this model (the position    *)
(* at which add_to_queue appended the dict) and never read by an operation.*)
(* A lease is the dict {'entry', 'receipt', 'timestamp'} of hidden_queue;  *)
(* its field id records which queue dict the Get flipped to invisible.     *)
(* uuid.uuid4() is modelled by a counter: every receipt is fresh.          *)
(* time.time() is the variable clock, advanced by Tick in steps of Step    *)
(* seconds; a handler runs within one reading of the clock.                *)
(***************************************************************************)
EXTENDS Integers, Sequences, FiniteSets, TLC

\* ---- bounds of the model ------------------------------------------------
MaxEnqueued == 3
MaxBatch == 2
MaxReceipts == 2
Step == 30
MaxTicks == 2

\* ---- configuration of the queue (dataclass fields of MockQueue) ----------
max_items_returned == 2
retry_after == 100
retry_after_more_data == 10
retry_after_too_many_requests == 360
max_requests_per_minute == 1
receipt_lifetime_duration == 30
\* the literal 60 of too_many_requests
RateWindow == 60

\* two payloads: entries are equal dicts or different dicts
Payloads == {"p", "q"}
MaxTime == MaxTicks * Step

VARIABLES
    queue,               \* MockQueue.queue
    hidden_queue,        \* MockQueue.hidden_queue
    deleted_urls,        \* MockQueue.deleted_urls
    request_timestamps,  \* MockQueue.request_timestamps
    timed_out_receipts,  \* MockQueue.timed_out_receipts
    clock,               \* time.time()
    issued,              \* number of uuid4 receipts drawn so far
    resp,                \* the answer to the latest call
    enqueued,            \* history: every payload passed to add_to_queue, in order
    delivered,           \* history: entries returned so far, kept while undisturbed
    undisturbed,         \* history: no lease has timed out and no call was throttled or raised so far
    removed_by_dequeue,  \* history: number of entries Dequeue calls have returned
    removed_by_delete,   \* history: number of Delete calls answered 204
    admitted_polls,      \* history: times of the latest Get/Dequeue calls answered 200,
                         \*          at most max_requests_per_minute of them
    server_queue,               \* RequestHandler.queue (class attribute)
    server_hidden_queue,        \* RequestHandler.hidden_queue (class attribute)
    server_deleted_urls,        \* RequestHandler.deleted_urls (class attribute)
    server_request_timestamps,  \* RequestHandler.request_timestamps (class attribute)
    server_timed_out_receipts,  \* RequestHandler.timed_out_receipts (class attribute)
    server_issued,              \* number of uuid4 receipts the server has drawn
    server_resp,                \* the answer of the server to the latest request
    server_recorded,            \* history: the timestamps the handlers of the server have
                                \*          appended that are younger than 60 seconds
    client_base_url,     \* lib.dequeue_import.BASE_URL
    client_pc,           \* where receive_forever is: "idle", "polling", "sleeping", "stopped"
    client_store,        \* the entries passed to store.put, in order
    client_wait,         \* the argument t of the latest sleep(t)
    client_error,        \* the exception that ended receive_forever, "none" if none
    recv_base_url,       \* WireqReceiver.base_url
    recv_pc,             \* where receive_and_import_forever is: "idle", "outer", "inner",
                         \* "get", "import", "delete", "delete_sleep", "stopped"
    recv_outer,          \* the EnsureDelay of receive_and_import_forever
    recv_inner,          \* the EnsureDelay of receive_entries_with_retry_hint
    recv_i,              \* the i of `for i in range(MAX_INNER_POLLS)`
    recv_response,       \* the response whose entries the generator is yielding
    recv_entries,        \* the entries of that response not yet yielded
    recv_seen,           \* WireqReceiver.seen
    recv_retries,        \* WireqReceiver.retries
    recv_imported,       \* the entries the importer has imported, in order
    recv_half,           \* half seconds slept since the clock last moved
    recv_error,          \* the exception that ended receive_and_import_forever
    recv_import_failed,  \* history: the importer has raised ImportFailed
    recv_deletes,        \* history: the entries Delete was sent for, in order
    recv_skipped,        \* history: the failed requests the receiver went on after
    how_pc,              \* how_to_receive_wireq.py: "idle" before my_database is set up
    my_database,         \* my_database of the first test: urn -> entry
    seen,                \* the module-level set seen of the first test
    my_database_2,       \* my_database of the second test (keep_only_latest_versions)
    seen_2,              \* seen of the second test
    last_response,       \* the entries of the response processed last
    responses_done       \* number of responses processed so far

\* the get/delete client
recv_vars == <<recv_base_url, recv_pc, recv_outer, recv_inner, recv_i, recv_response,
               recv_entries, recv_seen, recv_retries, recv_imported, recv_half,
               recv_error, recv_import_failed, recv_deletes, recv_skipped>>

\* the two tests of how_to_receive_wireq.py, fed the same responses
how_vars == <<how_pc, my_database, seen, my_database_2, seen_2, last_response,
              responses_done>>

\* the dequeue client
client_vars == <<client_base_url, client_pc, client_store, client_wait, client_error>>

server_vars == <<server_queue, server_hidden_queue, server_deleted_urls,
                 server_request_timestamps, server_timed_out_receipts, server_issued,
                 server_resp, server_recorded>>

vars == <<queue, hidden_queue, deleted_urls, request_timestamps, timed_out_receipts,
          clock, issued, resp, enqueued, delivered, undisturbed,
          removed_by_dequeue, removed_by_delete, admitted_polls, server_vars, client_vars,
          recv_vars, how_vars>>

\* ---- helpers over Python lists -------------------------------------------
Range(s) == {s[i] : i \in 1..Len(s)}

Min(a, b) == IF a < b THEN a ELSE b

\* list.remove(x) on position: the list without its i-th element
DropAt(s, i) == SubSeq(s, 1, i - 1) \o SubSeq(s, i + 1, Len(s))

\* equality of two queue dicts {'entry', 'visible'}
SameEntryDict(a, entry, visible) == a.entry = entry /\ a.visible = visible

\* index of the first queue dict equal to {'entry': entry, 'visible': visible}, 0 if none
FirstEqual(q, entry, visible) ==
    LET hits == {i \in 1..Len(q) : SameEntryDict(q[i], entry, visible)}
    IN IF hits = {} THEN 0 ELSE CHOOSE i \in hits : \A j \in hits : i <= j

\* index of the first lease equal to h (leases differ in their receipt), 0 if none
FirstLease(hq, h) ==
    LET hits == {i \in 1..Len(hq) : hq[i] = h}
    IN IF hits = {} THEN 0 ELSE CHOOSE i \in hits : \A j \in hits : i <= j

\* BASE_URL = '' of lib/dequeue_import.py; a URL is a host and the segments of its path
NoBaseUrl == [host |-> "", route |-> <<>>]

NoAnswer == [op |-> "none", status |-> 0, entries |-> <<>>, retry_after |-> 0,
             error |-> "none", key |-> 0]

\* an EnsureDelay that was not constructed yet
NoDelay == [delay |-> 0, last_call_time |-> 0]

Init ==
    /\ queue = <<>>
    /\ hidden_queue = <<>>
    /\ deleted_urls = <<>>
    /\ request_timestamps = <<>>
    /\ timed_out_receipts = <<>>
    /\ clock = 0
    /\ issued = 0
    /\ resp = NoAnswer
    /\ enqueued = <<>>
    /\ delivered = <<>>
    /\ undisturbed = TRUE
    /\ removed_by_dequeue = 0
    /\ removed_by_delete = 0
    /\ admitted_polls = <<>>
    /\ server_queue = <<>>
    /\ server_hidden_queue = <<>>
    /\ server_deleted_urls = <<>>
    /\ server_request_timestamps = <<>>
    /\ server_timed_out_receipts = <<>>
    /\ server_issued = 0
    /\ server_resp = NoAnswer
    /\ server_recorded = <<>>
    /\ client_base_url = NoBaseUrl
    /\ client_pc = "idle"
    /\ client_store = <<>>
    /\ client_wait = 0
    /\ client_error = "none"
    /\ recv_base_url = NoBaseUrl
    /\ recv_pc = "idle"
    /\ recv_outer = NoDelay
    /\ recv_inner = NoDelay
    /\ recv_i = 0
    /\ recv_response = NoAnswer
    /\ recv_entries = <<>>
    /\ recv_seen = {}
    /\ recv_retries = [entry_id \in Payloads |-> 0]
    /\ recv_imported = <<>>
    /\ recv_half = 0
    /\ recv_error = "none"
    /\ recv_import_failed = FALSE
    /\ recv_deletes = <<>>
    /\ recv_skipped = {}
    /\ how_pc = "idle"
    /\ my_database = <<>>
    /\ seen = {}
    /\ my_database_2 = <<>>
    /\ seen_2 = {}
    /\ last_response = <<>>
    /\ responses_done = 0

\* `difference > self.receipt_lifetime_duration` of check_hidden_entry_lifetime
timed_out(h_entry, current_time) ==
    current_time - h_entry.timestamp > receipt_lifetime_duration

any_timed_out(hq, current_time) == \E i \in 1..Len(hq) : timed_out(hq[i], current_time)

\* ---- time -----------------------------------------------------------------
Tick ==
    /\ clock + Step <= MaxTime
    /\ clock' = clock + Step
    /\ undisturbed' = (undisturbed /\ ~any_timed_out(hidden_queue, clock'))
    /\ delivered' = IF undisturbed' THEN delivered ELSE <<>>
    /\ UNCHANGED <<queue, hidden_queue, deleted_urls, request_timestamps,
                   timed_out_receipts, issued, resp, enqueued, removed_by_dequeue,
                   removed_by_delete, admitted_polls>>

\* ---- add_to_queue ---------------------------------------------------------
\* an add_to_queue that inserts the new entries in front of the queue
RECURSIVE add_to_queue_at_head(_, _, _)
add_to_queue_at_head(q, entries, next_id) ==
    IF entries = <<>> THEN q
    ELSE <<[id |-> next_id, entry |-> Head(entries), visible |-> TRUE]>>
             \o add_to_queue_at_head(q, Tail(entries), next_id + 1)

RECURSIVE add_to_queue(_, _, _)
add_to_queue(q, entries, next_id) ==
    IF entries = <<>> THEN q
    ELSE add_to_queue(Append(q, [id |-> next_id, entry |-> Head(entries), visible |-> TRUE]),
                      Tail(entries), next_id + 1)

Batches == UNION {[1..n -> Payloads] : n \in 1..MaxBatch}

Enqueue(entries) ==
    /\ Len(enqueued) + Len(entries) <= MaxEnqueued
    /\ queue' = add_to_queue(queue, entries, Len(enqueued) + 1)
    /\ enqueued' = enqueued \o entries
    /\ resp' = [NoAnswer EXCEPT !.op = "enqueue"]
    /\ UNCHANGED <<hidden_queue, deleted_urls, request_timestamps, timed_out_receipts,
                   clock, issued, delivered, undisturbed, removed_by_dequeue,
                   removed_by_delete, admitted_polls>>

\* ---- check_hidden_entry_lifetime -------------------------------------------
\* `for entry in self.queue:` of one timed-out h_entry, from queue position i on.
\* st = [queue, hidden_queue, timed_out_receipts, raised]; hidden_queue.remove
\* raises ValueError when h_entry is no longer in the list.
RECURSIVE reinstate(_, _, _)
reinstate(st, h_entry, i) ==
    IF st.raised \/ i > Len(st.queue) THEN st
    ELSE IF st.queue[i].entry = h_entry.entry
         THEN LET shown == [st.queue EXCEPT ![i].visible = TRUE]
                  at == FirstLease(st.hidden_queue, h_entry)
              IN IF at = 0
                 THEN [st EXCEPT !.queue = shown, !.raised = TRUE]
                 ELSE reinstate([st EXCEPT !.queue = shown,
                                           !.hidden_queue = DropAt(@, at),
                                           !.timed_out_receipts = Append(@, h_entry.receipt)],
                                h_entry, i + 1)
         ELSE reinstate(st, h_entry, i + 1)

\* `for h_entry in self.hidden_queue[:]:` from position j of the copy on.
RECURSIVE lifetime_loop(_, _, _, _)
lifetime_loop(st, copy, j, current_time) ==
    IF st.raised \/ j > Len(copy) THEN st
    ELSE IF timed_out(copy[j], current_time)
         THEN lifetime_loop(reinstate(st, copy[j], 1), copy, j + 1, current_time)
         ELSE lifetime_loop(st, copy, j + 1, current_time)

\* a reclamation that also takes the oldest entry out of the queue when a
\* lease has timed out
check_hidden_entry_lifetime_dropping(q, hq, tor, current_time) ==
    LET st == lifetime_loop([queue |-> q, hidden_queue |-> hq, timed_out_receipts |-> tor,
                             raised |-> FALSE], hq, 1, current_time)
    IN IF any_timed_out(hq, current_time)
       THEN [st EXCEPT !.queue = SubSeq(@, 2, Len(@))]
       ELSE st

check_hidden_entry_lifetime(q, hq, tor, current_time) ==
    lifetime_loop([queue |-> q, hidden_queue |-> hq, timed_out_receipts |-> tor,
                   raised |-> FALSE], hq, 1, current_time)

\* ---- selection --------------------------------------------------------------
visible_positions(q) ==
    SelectSeq([i \in 1..Len(q) |-> i], LAMBDA i : q[i].visible)

length_visible_queue(q) == Len(visible_positions(q))

\* a selection that takes the newest visible items instead of the oldest
last_x_visible_items(q, number_of_items) ==
    SubSeq(visible_positions(q),
           Len(visible_positions(q)) - Min(number_of_items, Len(visible_positions(q))) + 1,
           Len(visible_positions(q)))

\* a selection whose slice is one item longer
first_x_and_one_visible_items(q, number_of_items) ==
    SubSeq(visible_positions(q), 1, Min(number_of_items + 1, Len(visible_positions(q))))

\* [item for item in self.queue if item['visible']][0:number_of_items]
first_x_visible_items(q, number_of_items) ==
    SubSeq(visible_positions(q), 1, Min(number_of_items, length_visible_queue(q)))

\* ---- too_many_requests ------------------------------------------------------
\* a pruning that also records the time of the call that is being checked
valid_timestamps_and_now(ts, current_time) ==
    Append(SelectSeq(ts, LAMBDA timestamp : current_time - timestamp < RateWindow),
           current_time)

\* a pruning that drops nothing
valid_timestamps_unpruned(ts, current_time) == ts

valid_timestamps(ts, current_time) ==
    SelectSeq(ts, LAMBDA timestamp : current_time - timestamp < RateWindow)

\* a check that rejects already when the limit is reached
too_many_requests_at_limit(ts, current_time) ==
    Len(valid_timestamps(ts, current_time)) >= max_requests_per_minute

too_many_requests(ts, current_time) ==
    Len(valid_timestamps(ts, current_time)) > max_requests_per_minute

\* ---- dequeue_first_x_visible_items -----------------------------------------
\* items: the selected dicts (as they are when the loop starts); each is
\* removed with list.remove, which deletes the first dict equal to it.
\* a loop that records the timestamps but forgets self.queue.remove(item)
dequeue_loop_keeps(q, ts, items, current_time) ==
    [queue |-> q,
     request_timestamps |-> ts \o [k \in 1..Len(items) |-> current_time]]

RECURSIVE dequeue_loop(_, _, _, _)
dequeue_loop(q, ts, items, current_time) ==
    IF items = <<>> THEN [queue |-> q, request_timestamps |-> ts]
    ELSE LET at == FirstEqual(q, Head(items).entry, Head(items).visible)
         IN dequeue_loop(DropAt(q, at), Append(ts, current_time), Tail(items), current_time)

dequeue_first_x_visible_items(q, ts, number_of_items, current_time) ==
    LET sel == first_x_visible_items(q, number_of_items)
        items == [k \in 1..Len(sel) |-> q[sel[k]]]
        done == dequeue_loop(q, ts, items, current_time)
    IN [queue |-> done.queue, request_timestamps |-> done.request_timestamps,
        entries |-> [k \in 1..Len(items) |->
                        [id |-> items[k].id, entry |-> items[k].entry, receipt |-> 0]]]

\* ---- get_first_x_visible_items ---------------------------------------------
\* a generator that hands out the value it handed out before
uuid4_repeated(drawn) == IF drawn = 0 THEN 1 ELSE drawn

\* str(uuid.uuid4()) when drawn values were handed out before: a value that
\* differs from all of them
uuid4(drawn) == drawn + 1

\* a loop that writes the receipt into the stored item instead of a copy of
\* it, so that the queue no longer holds the item as it was enqueued
RECURSIVE get_loop_stamping(_, _, _, _)
get_loop_stamping(st, sel, k, current_time) ==
    IF k > Len(sel) THEN st
    ELSE LET item == st.queue[sel[k]]
             hashed == uuid4(st.issued)
         IN get_loop_stamping(
                [queue |-> [st.queue EXCEPT ![sel[k]].visible = FALSE,
                                            ![sel[k]].entry = "stamped"],
                 hidden_queue |-> Append(st.hidden_queue,
                                         [id |-> item.id, entry |-> "stamped",
                                          receipt |-> hashed, timestamp |-> current_time]),
                 request_timestamps |-> Append(st.request_timestamps, current_time),
                 issued |-> hashed,
                 entries |-> Append(st.entries,
                                    [id |-> item.id, entry |-> item.entry,
                                     receipt |-> hashed])],
                sel, k + 1, current_time)

RECURSIVE get_loop(_, _, _, _)
get_loop(st, sel, k, current_time) ==
    IF k > Len(sel) THEN st
    ELSE LET item == st.queue[sel[k]]
             hashed == uuid4(st.issued)
         IN get_loop([queue |-> [st.queue EXCEPT ![sel[k]].visible = FALSE],
                      hidden_queue |-> Append(st.hidden_queue,
                                              [id |-> item.id, entry |-> item.entry,
                                               receipt |-> hashed, timestamp |-> current_time]),
                      request_timestamps |-> Append(st.request_timestamps, current_time),
                      issued |-> hashed,
                      entries |-> Append(st.entries,
                                         [id |-> item.id, entry |-> item.entry,
                                          receipt |-> hashed])],
                     sel, k + 1, current_time)

get_first_x_visible_items(q, hq, ts, n_issued, number_of_items, current_time) ==
    get_loop([queue |-> q, hidden_queue |-> hq, request_timestamps |-> ts,
              issued |-> n_issued, entries |-> <<>>],
             first_x_visible_items(q, number_of_items), 1, current_time)

\* a hint that announces more data already when the backlog equals the cap
poll_hint_below_cap(len_visible_queue) ==
    IF len_visible_queue < max_items_returned THEN retry_after ELSE retry_after_more_data

\* the 'retry-after' header of an answered poll, from the visible length before selection
poll_hint(len_visible_queue) ==
    IF len_visible_queue <= max_items_returned THEN retry_after ELSE retry_after_more_data

\* the last max_requests_per_minute elements of a list of call times
latest(times) ==
    SubSeq(times, Len(times) - Min(Len(times), max_requests_per_minute) + 1, Len(times))

Raised(op, key) == [NoAnswer EXCEPT !.op = op, !.error = "ValueError", !.key = key]

\* a 429 that carries the hint of an answered poll
Throttled_with_poll_hint(op) ==
    [NoAnswer EXCEPT !.op = op, !.status = 429, !.retry_after = retry_after]

Throttled(op) == [NoAnswer EXCEPT !.op = op, !.status = 429,
                                  !.retry_after = retry_after_too_many_requests]

\* ---- wireq_dequeue_operation -----------------------------------------------
wireq_dequeue_operation ==
    LET chk == check_hidden_entry_lifetime(queue, hidden_queue, timed_out_receipts, clock)
        len_visible_queue == length_visible_queue(chk.queue)
        valid == valid_timestamps(request_timestamps, clock)
        out == dequeue_first_x_visible_items(chk.queue, valid, max_items_returned, clock)
    IN /\ hidden_queue' = chk.hidden_queue
       /\ timed_out_receipts' = chk.timed_out_receipts
       /\ UNCHANGED <<deleted_urls, clock, issued, enqueued, removed_by_delete>>
       /\ IF chk.raised
          THEN /\ queue' = chk.queue
               /\ resp' = Raised("dequeue", 0)
               /\ undisturbed' = FALSE
               /\ delivered' = <<>>
               /\ UNCHANGED <<request_timestamps, removed_by_dequeue, admitted_polls>>
          ELSE IF too_many_requests(request_timestamps, clock)
          THEN /\ queue' = chk.queue
               /\ request_timestamps' = valid
               /\ resp' = Throttled("dequeue")
               /\ undisturbed' = FALSE
               /\ delivered' = <<>>
               /\ UNCHANGED <<removed_by_dequeue, admitted_polls>>
          ELSE /\ queue' = out.queue
               /\ request_timestamps' = out.request_timestamps
               /\ resp' = [NoAnswer EXCEPT !.op = "dequeue", !.status = 200,
                                           !.entries = out.entries,
                                           !.retry_after = poll_hint(len_visible_queue)]
               /\ delivered' = IF undisturbed THEN delivered \o out.entries ELSE <<>>
               /\ removed_by_dequeue' = removed_by_dequeue + Len(out.entries)
               /\ admitted_polls' = latest(Append(admitted_polls, clock))
               /\ UNCHANGED undisturbed

\* ---- wireq_get_operation ---------------------------------------------------
\* max_receipts bounds the receipts the model lets the queue draw
get_operation(max_receipts) ==
    LET chk == check_hidden_entry_lifetime(queue, hidden_queue, timed_out_receipts, clock)
        len_visible_queue == length_visible_queue(chk.queue)
        valid == valid_timestamps(request_timestamps, clock)
        out == get_first_x_visible_items(chk.queue, chk.hidden_queue, valid, issued,
                                         max_items_returned, clock)
    IN /\ timed_out_receipts' = chk.timed_out_receipts
       /\ UNCHANGED <<deleted_urls, clock, enqueued, removed_by_dequeue, removed_by_delete>>
       /\ IF chk.raised
          THEN /\ queue' = chk.queue
               /\ hidden_queue' = chk.hidden_queue
               /\ resp' = Raised("get", 0)
               /\ undisturbed' = FALSE
               /\ delivered' = <<>>
               /\ UNCHANGED <<request_timestamps, issued, admitted_polls>>
          ELSE IF too_many_requests(request_timestamps, clock)
          THEN /\ queue' = chk.queue
               /\ hidden_queue' = chk.hidden_queue
               /\ request_timestamps' = valid
               /\ resp' = Throttled("get")
               /\ undisturbed' = FALSE
               /\ delivered' = <<>>
               /\ UNCHANGED <<issued, admitted_polls>>
          ELSE /\ out.issued <= max_receipts
               /\ queue' = out.queue
               /\ hidden_queue' = out.hidden_queue
               /\ request_timestamps' = out.request_timestamps
               /\ issued' = out.issued
               /\ resp' = [NoAnswer EXCEPT !.op = "get", !.status = 200,
                                           !.entries = out.entries,
                                           !.retry_after = poll_hint(len_visible_queue)]
               /\ delivered' = IF undisturbed THEN delivered \o out.entries ELSE <<>>
               /\ admitted_polls' = latest(Append(admitted_polls, clock))
               /\ UNCHANGED undisturbed

wireq_get_operation == get_operation(MaxReceipts)

\* ---- wireq_delete_operation ------------------------------------------------
\* keys = [entry.get('receipt') for entry in self.hidden_queue]
receipt_keys(hq) == {hq[i].receipt : i \in 1..Len(hq)}

\* the 410 / 410 / 404 branches; 0 when the key is the receipt of an active lease
delete_rejection(key, deleted, tor, hq) ==
    IF key \in Range(deleted) THEN 410
    ELSE IF key \in Range(tor) THEN 410
    ELSE IF key \notin receipt_keys(hq) THEN 404
    ELSE 0

\* the else branch: the lease with the key, self.queue.remove(formatted_element)
\* (ValueError when no dict {'entry': .., 'visible': False} is in the queue),
\* self.hidden_queue.remove(entry), self.deleted_urls.append(key)
delete_success(key, q, hq, deleted) ==
    LET at == CHOOSE i \in 1..Len(hq) : hq[i].receipt = key
        qat == FirstEqual(q, hq[at].entry, FALSE)
    IN IF qat = 0
       THEN [raised |-> TRUE, queue |-> q, hidden_queue |-> hq, deleted_urls |-> deleted]
       ELSE [raised |-> FALSE, queue |-> DropAt(q, qat), hidden_queue |-> DropAt(hq, at),
             deleted_urls |-> Append(deleted, key)]

\* key 0 stands for a string that is no receipt the queue ever issued
DeleteKeys == 0..issued

wireq_delete_operation(key) ==
    LET chk == check_hidden_entry_lifetime(queue, hidden_queue, timed_out_receipts, clock)
        status == delete_rejection(key, deleted_urls, chk.timed_out_receipts, chk.hidden_queue)
        done == delete_success(key, chk.queue, chk.hidden_queue, deleted_urls)
    IN /\ timed_out_receipts' = chk.timed_out_receipts
       /\ UNCHANGED <<request_timestamps, clock, issued, enqueued, delivered, undisturbed,
                      removed_by_dequeue, admitted_polls>>
       /\ IF chk.raised
          THEN /\ queue' = chk.queue
               /\ hidden_queue' = chk.hidden_queue
               /\ resp' = Raised("delete", key)
               /\ UNCHANGED <<deleted_urls, removed_by_delete>>
          ELSE IF status # 0
          THEN /\ queue' = chk.queue
               /\ hidden_queue' = chk.hidden_queue
               /\ resp' = [NoAnswer EXCEPT !.op = "delete", !.status = status, !.key = key]
               /\ UNCHANGED <<deleted_urls, removed_by_delete>>
          ELSE IF done.raised
          THEN /\ queue' = chk.queue
               /\ hidden_queue' = chk.hidden_queue
               /\ resp' = Raised("delete", key)
               /\ UNCHANGED <<deleted_urls, removed_by_delete>>
          ELSE /\ queue' = done.queue
               /\ hidden_queue' = done.hidden_queue
               /\ deleted_urls' = done.deleted_urls
               /\ resp' = [NoAnswer EXCEPT !.op = "delete", !.status = 204, !.key = key]
               /\ removed_by_delete' = removed_by_delete + 1

\* the mock alone: no request reaches the server
Next ==
    \/ Tick /\ UNCHANGED <<server_vars, client_vars, recv_vars, how_vars>>
    \/ \E entries \in Batches : Enqueue(entries) /\ UNCHANGED <<server_vars, client_vars, recv_vars, how_vars>>
    \/ wireq_dequeue_operation /\ UNCHANGED <<server_vars, client_vars, recv_vars, how_vars>>
    \/ wireq_get_operation /\ UNCHANGED <<server_vars, client_vars, recv_vars, how_vars>>
    \/ \E key \in DeleteKeys :
           wireq_delete_operation(key) /\ UNCHANGED <<server_vars, client_vars, recv_vars, how_vars>>

Spec == Init /\ [][Next]_vars

\* ==== RequestHandler (src/test/local_server/wireq_fake_server.py) =================
\* http.server builds one RequestHandler instance per request (protocol_version
\* is HTTP/1.0, so a connection carries one request).  The five lists are
\* class attributes.  queue, hidden_queue, deleted_urls and timed_out_receipts
\* are only changed in place (append, remove, item assignment), which changes
\* the class attribute.  too_many_requests assigns self.request_timestamps,
\* which binds an attribute of the instance: from then on the handler appends
\* to its own list, and the list goes away with the handler.
\* check_hidden_entry_lifetime, length_visible_queue, the two selections and
\* add_to_queue of RequestHandler are the text of MockQueue's methods, so the
\* operators above stand for both.

\* too_many_requests of a new handler: the list bound to the instance and the verdict
server_too_many_requests(class_timestamps, current_time) ==
    [instance_timestamps |-> valid_timestamps(class_timestamps, current_time),
     throttled |-> Len(valid_timestamps(class_timestamps, current_time))
                       > max_requests_per_minute]

\* the timestamps handlers have appended, those younger than 60 seconds
server_record(recorded, appended, current_time) ==
    valid_timestamps(recorded, current_time) \o appended

\* RequestHandler.add_to_queue (start_server fills RequestHandler.queue the same way)
server_add_to_queue(entries) ==
    /\ server_queue' = add_to_queue(server_queue, entries, Len(enqueued) + 1)
    /\ server_resp' = [NoAnswer EXCEPT !.op = "enqueue"]
    /\ UNCHANGED <<server_hidden_queue, server_deleted_urls, server_request_timestamps,
                   server_timed_out_receipts, server_issued, server_recorded>>

\* do_POST /dequeue-entries.json
server_wireq_dequeue_operation ==
    LET chk == check_hidden_entry_lifetime(server_queue, server_hidden_queue,
                                           server_timed_out_receipts, clock)
        len_visible_queue == length_visible_queue(chk.queue)
        rate == server_too_many_requests(server_request_timestamps, clock)
        out == dequeue_first_x_visible_items(chk.queue, rate.instance_timestamps,
                                             max_items_returned, clock)
    IN /\ server_hidden_queue' = chk.hidden_queue
       /\ server_timed_out_receipts' = chk.timed_out_receipts
       /\ UNCHANGED <<server_deleted_urls, server_request_timestamps, server_issued>>
       /\ IF chk.raised
          THEN /\ server_queue' = chk.queue
               /\ server_resp' = Raised("dequeue", 0)
               /\ UNCHANGED server_recorded
          ELSE IF rate.throttled
          THEN /\ server_queue' = chk.queue
               /\ server_resp' = Throttled("dequeue")
               /\ UNCHANGED server_recorded
          ELSE /\ server_queue' = out.queue
               /\ server_resp' = [NoAnswer EXCEPT !.op = "dequeue", !.status = 200,
                                                  !.entries = out.entries,
                                                  !.retry_after = poll_hint(len_visible_queue)]
               /\ server_recorded' =
                      server_record(server_recorded,
                                    [k \in 1..Len(out.entries) |-> clock], clock)

\* do_GET /entries.json
server_wireq_get_operation ==
    LET chk == check_hidden_entry_lifetime(server_queue, server_hidden_queue,
                                           server_timed_out_receipts, clock)
        len_visible_queue == length_visible_queue(chk.queue)
        rate == server_too_many_requests(server_request_timestamps, clock)
        out == get_first_x_visible_items(chk.queue, chk.hidden_queue,
                                         rate.instance_timestamps, server_issued,
                                         max_items_returned, clock)
    IN /\ server_timed_out_receipts' = chk.timed_out_receipts
       /\ UNCHANGED <<server_deleted_urls, server_request_timestamps>>
       /\ IF chk.raised
          THEN /\ server_queue' = chk.queue
               /\ server_hidden_queue' = chk.hidden_queue
               /\ server_resp' = Raised("get", 0)
               /\ UNCHANGED <<server_issued, server_recorded>>
          ELSE IF rate.throttled
          THEN /\ server_queue' = chk.queue
               /\ server_hidden_queue' = chk.hidden_queue
               /\ server_resp' = Throttled("get")
               /\ UNCHANGED <<server_issued, server_recorded>>
          ELSE /\ out.issued <= MaxReceipts
               /\ server_queue' = out.queue
               /\ server_hidden_queue' = out.hidden_queue
               /\ server_issued' = out.issued
               /\ server_resp' = [NoAnswer EXCEPT !.op = "get", !.status = 200,
                                                  !.entries = out.entries,
                                                  !.retry_after = poll_hint(len_visible_queue)]
               /\ server_recorded' =
                      server_record(server_recorded,
                                    [k \in 1..Len(out.entries) |-> clock], clock)

\* do_DELETE .../entry/<key>
server_wireq_delete_operation(key) ==
    LET chk == check_hidden_entry_lifetime(server_queue, server_hidden_queue,
                                           server_timed_out_receipts, clock)
        status == delete_rejection(key, server_deleted_urls, chk.timed_out_receipts,
                                   chk.hidden_queue)
        done == delete_success(key, chk.queue, chk.hidden_queue, server_deleted_urls)
    IN /\ server_timed_out_receipts' = chk.timed_out_receipts
       /\ UNCHANGED <<server_request_timestamps, server_issued, server_recorded>>
       /\ IF chk.raised
          THEN /\ server_queue' = chk.queue
               /\ server_hidden_queue' = chk.hidden_queue
               /\ server_resp' = Raised("delete", key)
               /\ UNCHANGED server_deleted_urls
          ELSE IF status # 0
          THEN /\ server_queue' = chk.queue
               /\ server_hidden_queue' = chk.hidden_queue
               /\ server_resp' = [NoAnswer EXCEPT !.op = "delete", !.status = status,
                                                  !.key = key]
               /\ UNCHANGED server_deleted_urls
          ELSE IF done.raised
          THEN /\ server_queue' = chk.queue
               /\ server_hidden_queue' = chk.hidden_queue
               /\ server_resp' = Raised("delete", key)
               /\ UNCHANGED server_deleted_urls
          ELSE /\ server_queue' = done.queue
               /\ server_hidden_queue' = done.hidden_queue
               /\ server_deleted_urls' = done.deleted_urls
               /\ server_resp' = [NoAnswer EXCEPT !.op = "delete", !.status = 204,
                                                  !.key = key]

\* a receipt as a client names it: the n-th receipt it was handed, or 0 for none
ServerDeleteKeys == 0..server_issued

\* the mock and the server, given the same content and the same requests at
\* the same clock values
NextBoth ==
    \/ Tick /\ UNCHANGED <<server_vars, client_vars, recv_vars, how_vars>>
    \/ \E entries \in Batches :
           Enqueue(entries) /\ server_add_to_queue(entries) /\ UNCHANGED <<client_vars, recv_vars, how_vars>>
    \/ wireq_dequeue_operation /\ server_wireq_dequeue_operation /\ UNCHANGED <<client_vars, recv_vars, how_vars>>
    \/ wireq_get_operation /\ server_wireq_get_operation /\ UNCHANGED <<client_vars, recv_vars, how_vars>>
    \/ \E key \in DeleteKeys \cup ServerDeleteKeys :
           /\ wireq_delete_operation(key)
           /\ server_wireq_delete_operation(key)
           /\ UNCHANGED <<client_vars, recv_vars, how_vars>>

SpecBoth == Init /\ [][NextBoth]_vars

\* ==== the dequeue client (src/lib/dequeue_import.py, src/dequeue_import.py) ======
\* receive_forever polls MockQueue.post, which the tests patch over requests.
\* sleep(t) lets t seconds pass on the clock of the queue.
ClientMaxTime == 130
POLL_INTERVAL == 120

BaseUrls == {[host |-> "dummy.co", route |-> <<>>],
             [host |-> "dumy.co", route |-> <<>>],
             [host |-> "dummy.co", route |-> <<"notarealroute">>]}

\* f'{BASE_URL}/dequeue-entries.json'
dequeue_url(base_url) ==
    [host |-> base_url.host, route |-> Append(base_url.route, "dequeue-entries.json")]

\* the status MockQueue.post registers without calling the queue, 0 if it calls it
post_status(url) ==
    IF url.host # "dummy.co" THEN 404
    ELSE IF url.route # <<"dequeue-entries.json">> THEN 403
    ELSE 0

\* str(n) of a natural number: its decimal digits
RECURSIVE str(_)
str(n) == IF n < 10 THEN <<n>> ELSE Append(str(n \div 10), n % 10)

\* int(s) of a string of decimal digits
RECURSIVE int(_)
int(s) == IF s = <<>> THEN 0 ELSE 10 * int(SubSeq(s, 1, Len(s) - 1)) + s[Len(s)]

\* response.headers.get('retry-after'): the header as text, <<>> for None
delay_hint(answer) == IF answer.retry_after = 0 THEN <<>> ELSE str(answer.retry_after)

\* t = int(POLL_INTERVAL if delay_hint is None else delay_hint)
sleep_time(hint) == IF hint = <<>> THEN POLL_INTERVAL ELSE int(hint)

\* a raise_for_status that lets client errors pass
raise_for_status_5xx(status) == status >= 500 /\ status < 600

\* response.raise_for_status(): HTTPError for 4xx and 5xx
raise_for_status(status) == status >= 400 /\ status < 600

\* store.put(entries) of the tests' DummyStore
store_put(store, entries) == store \o [k \in 1..Len(entries) |-> entries[k].entry]

\* BASE_URL is set and receive_forever is called
client_start(base_url) ==
    /\ client_pc = "idle"
    /\ client_base_url' = base_url
    /\ client_pc' = "polling"
    /\ UNCHANGED <<client_store, client_wait, client_error>>
    /\ UNCHANGED <<queue, hidden_queue, deleted_urls, request_timestamps,
                   timed_out_receipts, clock, issued, resp, enqueued, delivered,
                   undisturbed, removed_by_dequeue, removed_by_delete, admitted_polls>>

\* receive_once up to the call of sleep: MockQueue.post, raise_for_status, store.put
receive_once ==
    /\ client_pc = "polling"
    /\ IF post_status(dequeue_url(client_base_url)) = 0
       THEN wireq_dequeue_operation
       ELSE /\ resp' = [NoAnswer EXCEPT !.op = "dequeue",
                                         !.status = post_status(dequeue_url(client_base_url))]
            /\ UNCHANGED <<queue, hidden_queue, deleted_urls, request_timestamps,
                           timed_out_receipts, clock, issued, enqueued, delivered,
                           undisturbed, removed_by_dequeue, removed_by_delete,
                           admitted_polls>>
    /\ UNCHANGED client_base_url
    /\ IF resp'.error # "none"
       THEN /\ client_pc' = "stopped"
            /\ client_error' = resp'.error
            /\ UNCHANGED <<client_store, client_wait>>
       ELSE IF raise_for_status(resp'.status)
       THEN /\ client_pc' = "stopped"
            /\ client_error' = "HTTPError"
            /\ UNCHANGED <<client_store, client_wait>>
       ELSE /\ client_store' = store_put(client_store, resp'.entries)
            /\ client_wait' = sleep_time(delay_hint(resp'))
            /\ client_pc' = "sleeping"
            /\ UNCHANGED client_error

\* sleep(t) returns: t seconds have passed
sleep ==
    /\ client_pc = "sleeping"
    /\ clock + client_wait <= ClientMaxTime
    /\ clock' = clock + client_wait
    /\ client_pc' = "polling"
    /\ undisturbed' = (undisturbed /\ ~any_timed_out(hidden_queue, clock'))
    /\ delivered' = IF undisturbed' THEN delivered ELSE <<>>
    /\ UNCHANGED <<client_base_url, client_store, client_wait, client_error>>
    /\ UNCHANGED <<queue, hidden_queue, deleted_urls, request_timestamps,
                   timed_out_receipts, issued, resp, enqueued, removed_by_dequeue,
                   removed_by_delete, admitted_polls>>

ClientStart == \E base_url \in BaseUrls : client_start(base_url) /\ UNCHANGED <<server_vars, recv_vars, how_vars>>

ClientEnqueue ==
    \E entries \in Batches : Enqueue(entries) /\ UNCHANGED <<server_vars, client_vars, recv_vars, how_vars>>

ClientPoll == receive_once /\ UNCHANGED <<server_vars, recv_vars, how_vars>>

\* receive_once when requests.post raises a RequestException (a timeout, a
\* refused connection): no request reaches the queue, `except RequestException`
\* logs the error, and the next statement, response.raise_for_status(), reads
\* the local variable `response`, which was never bound: UnboundLocalError
receive_once_unanswered ==
    /\ client_pc = "polling"
    /\ client_pc' = "stopped"
    /\ client_error' = "UnboundLocalError"
    /\ UNCHANGED <<client_base_url, client_store, client_wait>>
    /\ UNCHANGED <<queue, hidden_queue, deleted_urls, request_timestamps,
                   timed_out_receipts, clock, issued, resp, enqueued, delivered,
                   undisturbed, removed_by_dequeue, removed_by_delete, admitted_polls>>

ClientPollUnanswered ==
    receive_once_unanswered /\ UNCHANGED <<server_vars, recv_vars, how_vars>>

ClientSleep == sleep /\ UNCHANGED <<server_vars, recv_vars, how_vars>>

\* receive_forever against the mock, while a producer calls add_to_queue
NextDequeueClient == ClientStart \/ ClientEnqueue \/ ClientPoll \/ ClientSleep

\* receive_forever over a network that may fail to deliver an answer
NextDequeueClientUnreliable ==
    \/ ClientStart
    \/ ClientEnqueue
    \/ ClientPoll
    \/ ClientPollUnanswered
    \/ ClientSleep

SpecDequeueClientUnreliable == Init /\ [][NextDequeueClientUnreliable]_vars

\* a running client takes its next step: the loop of receive_forever has no
\* other exit than an exception, and sleep(t) returns
SpecDequeueClient ==
    /\ Init
    /\ [][NextDequeueClient]_vars
    /\ WF_vars(ClientPoll)
    /\ WF_vars(ClientSleep)

\* ==== the get/delete client (src/get_delete_import.py) ===========================
\* WireqReceiver.receive_and_import_forever with the MockQueue as its session
\* (receiver.session = mocked_queue in the tests).  An entry's entry_id is its
\* payload: equal payloads are the same entry delivered again.  time.sleep(t)
\* lets t seconds pass on the clock of the queue, and so does a slow importer.
\* The clock counts whole seconds: the half second of DELETE_DELAY is kept in
\* recv_half and moves the clock when a second is full.
RecvMaxTime == 2010
RecvEnqueueBy == 100
RecvMaxReceipts == 4
\* time.time() when the clock of the model reads 0
Epoch == 1000

OUTER_POLL_INTERVAL == 30
MAX_INNER_POLLS == 20
\* DELETE_DELAY = 0.5, in half seconds
DELETE_DELAY == 1
IMPORT_RETRY_COUNT == 3

\* how long self.importer(OUTPUT_DIR, entry) takes: no time, or longer than a lease lives
ImportTimes == {0, receipt_lifetime_duration + 1}

queue_vars == <<queue, hidden_queue, deleted_urls, request_timestamps, timed_out_receipts,
                clock, issued, resp, enqueued, delivered, undisturbed,
                removed_by_dequeue, removed_by_delete, admitted_polls>>

time_time(c) == Epoch + c

\* f'{self.base_url}/entries.json'
entries_url(base_url) ==
    [host |-> base_url.host, route |-> Append(base_url.route, "entries.json")]

\* f'{self.base_url}/entry/{receipt}', without the receipt
entry_url(base_url) ==
    [host |-> base_url.host, route |-> Append(base_url.route, "entry")]

\* the status MockQueue.get registers without calling the queue, 0 if it calls it
get_status(url) ==
    IF url.host # "dummy.co" THEN 404
    ELSE IF url.route # <<"entries.json">> THEN 403
    ELSE 0

\* the status MockQueue.delete registers without calling the queue, 0 if it calls it
delete_status(url) ==
    IF url.host # "dummy.co" \/ url.route # <<"entry">> THEN 404 ELSE 0

\* EnsureDelay.__init__
EnsureDelay(delay, skip_first, now) ==
    [delay |-> delay, last_call_time |-> IF skip_first THEN 0 ELSE now]

\* sleep_for of EnsureDelay.__call__, 0 when it does not sleep
sleep_for(d, now) ==
    IF d.last_call_time + d.delay - now > 0 THEN d.last_call_time + d.delay - now ELSE 0

\* t whole seconds pass while no call reaches the queue
passes(t) ==
    /\ clock + t <= RecvMaxTime
    /\ clock' = clock + t
    /\ undisturbed' = (undisturbed /\ ~any_timed_out(hidden_queue, clock'))
    /\ delivered' = IF undisturbed' THEN delivered ELSE <<>>
    /\ UNCHANGED <<queue, hidden_queue, deleted_urls, request_timestamps,
                   timed_out_receipts, issued, resp, enqueued, removed_by_dequeue,
                   removed_by_delete, admitted_polls>>

\* EnsureDelay.__call__ up to the assignment of last_call_time: a sleep ends
\* on the whole second it was aimed at
ensure_delay(d) ==
    /\ passes(sleep_for(d, time_time(clock)))
    /\ recv_half' = IF sleep_for(d, time_time(clock)) > 0 THEN 0 ELSE recv_half

\* WireqReceiver(base_url, importer) and the first lines of receive_and_import_forever
recv_start(base_url) ==
    /\ recv_pc = "idle"
    /\ recv_base_url' = base_url
    /\ recv_outer' = EnsureDelay(OUTER_POLL_INTERVAL, TRUE, time_time(clock))
    /\ recv_seen' = {}
    /\ recv_retries' = [entry_id \in Payloads |-> 0]
    /\ recv_pc' = "outer"
    /\ UNCHANGED <<recv_inner, recv_i, recv_response, recv_entries, recv_imported,
                   recv_half, recv_error, recv_import_failed, recv_deletes, recv_skipped>>
    /\ UNCHANGED queue_vars

\* `while True: delay()`, then the generator starts: delay = EnsureDelay(delay=0),
\* i = 0, delay() (which does not sleep)
recv_outer_delay ==
    /\ recv_pc = "outer"
    /\ ensure_delay(recv_outer)
    /\ recv_outer' = [recv_outer EXCEPT !.last_call_time = time_time(clock')]
    /\ recv_inner' = EnsureDelay(0, FALSE, time_time(clock'))
    /\ recv_i' = 0
    /\ recv_pc' = "get"
    /\ UNCHANGED <<recv_base_url, recv_response, recv_entries, recv_seen, recv_retries,
                   recv_imported, recv_error, recv_import_failed, recv_deletes,
                   recv_skipped>>

\* delay() of the next `for i in range(MAX_INNER_POLLS)` round
recv_inner_delay ==
    /\ recv_pc = "inner"
    /\ ensure_delay(recv_inner)
    /\ recv_inner' = [recv_inner EXCEPT !.last_call_time = time_time(clock')]
    /\ recv_pc' = "get"
    /\ UNCHANGED <<recv_base_url, recv_outer, recv_i, recv_response, recv_entries,
                   recv_seen, recv_retries, recv_imported, recv_error,
                   recv_import_failed, recv_deletes, recv_skipped>>

\* a generator whose loop has no upper limit of rounds
resume_unlimited(rest, response) ==
    IF rest # <<>>
    THEN /\ recv_entries' = rest
         /\ recv_pc' = "import"
         /\ UNCHANGED <<recv_i, recv_inner>>
    ELSE /\ recv_entries' = <<>>
         /\ IF delay_hint(response) = <<>>
            THEN /\ recv_pc' = "outer"
                 /\ UNCHANGED <<recv_i, recv_inner>>
            ELSE /\ recv_pc' = "inner"
                 /\ recv_i' = recv_i + 1
                 /\ recv_inner' = [recv_inner EXCEPT !.delay = int(delay_hint(response))]

\* the generator after it yielded `rest` is left of the entries of `response`:
\* the next entry, or the retry-after hint and the next round, or its end
resume(rest, response) ==
    IF rest # <<>>
    THEN /\ recv_entries' = rest
         /\ recv_pc' = "import"
         /\ UNCHANGED <<recv_i, recv_inner>>
    ELSE /\ recv_entries' = <<>>
         /\ IF delay_hint(response) = <<>> \/ recv_i + 1 >= MAX_INNER_POLLS
            THEN /\ recv_pc' = "outer"
                 /\ UNCHANGED <<recv_i, recv_inner>>
            ELSE /\ recv_pc' = "inner"
                 /\ recv_i' = recv_i + 1
                 /\ recv_inner' = [recv_inner EXCEPT !.delay = int(delay_hint(response))]

\* response = self.session.get(url), response.raise_for_status(), entries
recv_get ==
    /\ recv_pc = "get"
    /\ IF get_status(entries_url(recv_base_url)) = 0
       THEN get_operation(RecvMaxReceipts)
       ELSE /\ resp' = [NoAnswer EXCEPT !.op = "get",
                                         !.status = get_status(entries_url(recv_base_url))]
            /\ UNCHANGED <<queue, hidden_queue, deleted_urls, request_timestamps,
                           timed_out_receipts, clock, issued, enqueued, delivered,
                           undisturbed, removed_by_dequeue, removed_by_delete,
                           admitted_polls>>
    /\ UNCHANGED <<recv_base_url, recv_outer, recv_seen, recv_retries, recv_imported,
                   recv_half, recv_import_failed, recv_deletes>>
    /\ IF resp'.error # "none"
       THEN /\ recv_pc' = "stopped"
            /\ recv_error' = resp'.error
            /\ UNCHANGED <<recv_i, recv_inner, recv_response, recv_entries, recv_skipped>>
       ELSE IF raise_for_status(resp'.status)
       THEN /\ recv_pc' = "outer"
            /\ recv_skipped' = recv_skipped \cup {[op |-> "get", status |-> resp'.status]}
            /\ UNCHANGED <<recv_i, recv_inner, recv_response, recv_entries, recv_error>>
       ELSE /\ recv_response' = resp'
            /\ resume(resp'.entries, resp')
            /\ UNCHANGED <<recv_error, recv_skipped>>

\* a loop that takes no entry for a duplicate
in_seen_never(entry_id, seen_set) == FALSE

\* `entry_id not in self.seen` of receive_and_import_forever, negated
in_seen(entry_id, seen_set) == entry_id \in seen_set

\* an import_with_retry that never gives up
retry_left_always(retried) == TRUE

\* `if self.retries[entry_id] < IMPORT_RETRY_COUNT:` of import_with_retry
retry_left(retried) == retried < IMPORT_RETRY_COUNT

\* the body of the for loop up to delete_from_queue: the seen test and
\* import_with_retry, whose importer succeeds or raises ImportFailed
recv_import(ok, took) ==
    /\ recv_pc = "import"
    /\ UNCHANGED <<recv_base_url, recv_outer, recv_response, recv_half, recv_error,
                   recv_deletes, recv_skipped>>
    /\ LET entry_id == Head(recv_entries).entry
       IN IF in_seen(entry_id, recv_seen)
          THEN /\ ok /\ took = 0
               /\ recv_pc' = "delete"
               /\ UNCHANGED <<recv_i, recv_inner, recv_entries, recv_seen, recv_retries,
                              recv_imported, recv_import_failed>>
               /\ UNCHANGED queue_vars
          ELSE /\ passes(took)
               /\ IF ok
                  THEN /\ recv_imported' = Append(recv_imported, entry_id)
                       /\ recv_seen' = recv_seen \cup {entry_id}
                       /\ recv_pc' = "delete"
                       /\ UNCHANGED <<recv_i, recv_inner, recv_entries, recv_retries,
                                      recv_import_failed>>
                  ELSE /\ recv_import_failed' = TRUE
                       /\ UNCHANGED recv_imported
                       /\ IF retry_left(recv_retries[entry_id])
                          THEN /\ recv_retries' = [recv_retries EXCEPT ![entry_id] = @ + 1]
                               /\ resume(Tail(recv_entries), recv_response)
                               /\ UNCHANGED recv_seen
                          ELSE /\ recv_seen' = recv_seen \cup {entry_id}
                               /\ recv_pc' = "delete"
                               /\ UNCHANGED <<recv_i, recv_inner, recv_entries,
                                              recv_retries>>

\* delete_from_queue up to time.sleep: self.session.delete, raise_for_status,
\* `except RequestException`
delete_from_queue ==
    /\ recv_pc = "delete"
    /\ IF delete_status(entry_url(recv_base_url)) = 0
       THEN wireq_delete_operation(Head(recv_entries).receipt)
       ELSE /\ resp' = [NoAnswer EXCEPT !.op = "delete",
                                         !.status = delete_status(entry_url(recv_base_url)),
                                         !.key = Head(recv_entries).receipt]
            /\ UNCHANGED <<queue, hidden_queue, deleted_urls, request_timestamps,
                           timed_out_receipts, clock, issued, enqueued, delivered,
                           undisturbed, removed_by_dequeue, removed_by_delete,
                           admitted_polls>>
    /\ recv_deletes' = Append(recv_deletes, Head(recv_entries))
    /\ IF resp'.error # "none"
       THEN /\ recv_pc' = "stopped"
            /\ recv_error' = resp'.error
            /\ UNCHANGED recv_skipped
       ELSE /\ recv_pc' = "delete_sleep"
            /\ recv_skipped' = IF raise_for_status(resp'.status)
                               THEN recv_skipped \cup {[op |-> "delete", status |-> resp'.status]}
                               ELSE recv_skipped
            /\ UNCHANGED recv_error
    /\ UNCHANGED <<recv_base_url, recv_outer, recv_inner, recv_i, recv_response,
                   recv_entries, recv_seen, recv_retries, recv_imported, recv_half,
                   recv_import_failed>>

\* time.sleep(DELETE_DELAY), then the for loop asks the generator for the next entry
recv_delete_sleep ==
    /\ recv_pc = "delete_sleep"
    /\ passes((recv_half + DELETE_DELAY) \div 2)
    /\ recv_half' = (recv_half + DELETE_DELAY) % 2
    /\ resume(Tail(recv_entries), recv_response)
    /\ UNCHANGED <<recv_base_url, recv_outer, recv_response, recv_seen, recv_retries,
                   recv_imported, recv_error, recv_import_failed, recv_deletes,
                   recv_skipped>>

RecvStart ==
    \E base_url \in BaseUrls :
        recv_start(base_url) /\ UNCHANGED <<server_vars, client_vars, how_vars>>

\* a producer that adds entries until RecvEnqueueBy
RecvEnqueue ==
    /\ clock <= RecvEnqueueBy
    /\ \E entries \in Batches :
           Enqueue(entries) /\ UNCHANGED <<server_vars, client_vars, recv_vars, how_vars>>

RecvOuterDelay == recv_outer_delay /\ UNCHANGED <<server_vars, client_vars, how_vars>>

RecvInnerDelay == recv_inner_delay /\ UNCHANGED <<server_vars, client_vars, how_vars>>

RecvGet == recv_get /\ UNCHANGED <<server_vars, client_vars, how_vars>>

RecvImport ==
    \E ok \in BOOLEAN, took \in ImportTimes :
        recv_import(ok, took) /\ UNCHANGED <<server_vars, client_vars, how_vars>>

RecvDelete == delete_from_queue /\ UNCHANGED <<server_vars, client_vars, how_vars>>

RecvDeleteSleep == recv_delete_sleep /\ UNCHANGED <<server_vars, client_vars, how_vars>>

\* receive_and_import_forever against the mock, while a producer calls add_to_queue
NextGetDeleteClient ==
    \/ RecvStart
    \/ RecvEnqueue
    \/ RecvOuterDelay
    \/ RecvInnerDelay
    \/ RecvGet
    \/ RecvImport
    \/ RecvDelete
    \/ RecvDeleteSleep

\* the statement receive_and_import_forever is at
RecvStep ==
    \/ RecvOuterDelay
    \/ RecvInnerDelay
    \/ RecvGet
    \/ RecvImport
    \/ RecvDelete
    \/ RecvDeleteSleep

\* the receiver is one thread that runs its loop: a sleep returns, a request
\* is answered or times out, and the importer returns or raises
SpecGetDeleteClient ==
    /\ Init
    /\ [][NextGetDeleteClient]_vars
    /\ WF_vars(RecvStep)

\* an importer that always succeeds and takes no time (mock_importer of the tests)
RecvImportDone ==
    recv_import(TRUE, 0) /\ UNCHANGED <<server_vars, client_vars, how_vars>>

RecvStepDone ==
    \/ RecvOuterDelay
    \/ RecvInnerDelay
    \/ RecvGet
    \/ RecvImportDone
    \/ RecvDelete
    \/ RecvDeleteSleep

\* receive_and_import_forever with that importer
NextDrain ==
    \/ RecvStart
    \/ RecvEnqueue
    \/ RecvOuterDelay
    \/ RecvInnerDelay
    \/ RecvGet
    \/ RecvImportDone
    \/ RecvDelete
    \/ RecvDeleteSleep

SpecDrain ==
    /\ Init
    /\ [][NextDrain]_vars
    /\ WF_vars(RecvStepDone)

\* ==== processing received entries (src/how_to_receive_wireq.py) ==================
\* An entry is the dict {'entry_id', 'urn', 'version', 'version_created',
\* 'updated'}.  Urns and time stamps are strings in the source and are
\* compared as strings; here they are numbers in the same order.  Entries
\* that differ have different entry_ids, so the entry_id is the tuple of the
\* other fields and a copy number: two copies share urn, version,
\* version_created and updated and are different entries.
MaxResponses == 2
MaxResponseLen == 2

Urns == {1, 2}
Versions == {1, 2}
Stamps == {1, 2}
Copies == {1, 2}

wire_entry(u, v, c, d, n) ==
    [entry_id |-> <<u, v, c, d, n>>, urn |-> u, version |-> v, version_created |-> c,
     updated |-> d]

\* every key for the first urn, a second copy of its lowest key, and two
\* versions for the second urn
WireEntries ==
    {wire_entry(u, v, c, d, n) : u \in Urns, v \in Versions, c \in Stamps, d \in Stamps,
                                 n \in Copies} \cap
    {e \in [entry_id : Urns \X Versions \X Stamps \X Stamps \X Copies, urn : Urns,
            version : Versions, version_created : Stamps, updated : Stamps] :
        /\ e.urn = 1 \/ (e.version_created = 1 /\ e.updated = 1 /\ e.entry_id[5] = 1)
        /\ e.entry_id[5] = 1
               \/ (e.urn = 1 /\ e.version = 1 /\ e.version_created = 1 /\ e.updated = 1)}

Responses == UNION {[1..n -> WireEntries] : n \in 0..MaxResponseLen}

\* initial_database_content(): nothing yet, or one entry for the first urn
InitialDatabases == {<<>>} \cup {(e.urn :> e) : e \in {x \in WireEntries : x.urn = 1}}

\* sorted(entries, key=itemgetter(field)): Python's sort is stable
RECURSIVE sorted(_, _)
sorted(entries, field) ==
    IF entries = <<>> THEN <<>>
    ELSE LET rest == sorted(SubSeq(entries, 1, Len(entries) - 1), field)
             last == entries[Len(entries)]
             p == Cardinality({i \in 1..Len(rest) : rest[i][field] <= last[field]})
         IN SubSeq(rest, 1, p) \o <<last>> \o SubSeq(rest, p + 1, Len(rest))

\* latest(e1, e2): entries[1] after the three sorts; arg tells which of the
\* two objects it is (`entry is latest_entry` compares objects)
latest_entry(e1, e2) ==
    sorted(sorted(sorted(<<e1 @@ ("arg" :> 1), e2 @@ ("arg" :> 2)>>, "updated"),
                  "version_created"), "version")[2]

\* have_seen(entry_id): the answer and the seen set afterwards
have_seen(entry_id, seen_set) ==
    [result |-> entry_id \in seen_set, seen |-> seen_set \cup {entry_id}]

\* the body of `for entry in entries:` of process_wireq_entries
process_entry(st, entry) ==
    LET hs == have_seen(entry.entry_id, st.seen)
    IN IF hs.result
       THEN [st EXCEPT !.seen = hs.seen]
       ELSE IF entry.urn \notin DOMAIN st.database
       THEN [database |-> st.database @@ (entry.urn :> entry), seen |-> hs.seen]
       ELSE IF latest_entry(st.database[entry.urn], entry).arg = 2
       THEN [database |-> [st.database EXCEPT ![entry.urn] = entry], seen |-> hs.seen]
       ELSE [st EXCEPT !.seen = hs.seen]

RECURSIVE process_wireq_entries(_, _, _)
process_wireq_entries(entries, database, seen_set) ==
    IF entries = <<>> THEN [database |-> database, seen |-> seen_set]
    ELSE LET st == process_wireq_entries(SubSeq(entries, 1, Len(entries) - 1), database,
                                         seen_set)
         IN process_entry(st, entries[Len(entries)])

\* keep_only_latest_versions: the four sorts, then the last entry of each
\* group of equal urn
keep_only_latest_versions(entries) ==
    LET by_urn == sorted(sorted(sorted(sorted(entries, "updated"), "version_created"),
                                "version"), "urn")
    IN SelectSeq([i \in 1..Len(by_urn) |->
                     [entry |-> by_urn[i],
                      ends_group |-> i = Len(by_urn) \/ by_urn[i + 1].urn # by_urn[i].urn]],
                 LAMBDA x : x.ends_group)

\* my_database = initial_database_content(); seen = set(), for both tests
HowSetup(database) ==
    /\ how_pc = "idle"
    /\ how_pc' = "processing"
    /\ my_database' = database
    /\ my_database_2' = database
    /\ seen' = {}
    /\ seen_2' = {}
    /\ UNCHANGED <<last_response, responses_done>>
    /\ UNCHANGED <<queue_vars, server_vars, client_vars, recv_vars>>

\* one response of the queue, processed by the first test and by the second
HowReceive(entries) ==
    /\ how_pc = "processing"
    /\ responses_done < MaxResponses
    /\ responses_done' = responses_done + 1
    /\ last_response' = entries
    /\ LET first == process_wireq_entries(entries, my_database, seen)
           kept == keep_only_latest_versions(entries)
           second == process_wireq_entries([i \in 1..Len(kept) |-> kept[i].entry],
                                           my_database_2, seen_2)
       IN /\ my_database' = first.database
          /\ seen' = first.seen
          /\ my_database_2' = second.database
          /\ seen_2' = second.seen
    /\ UNCHANGED how_pc
    /\ UNCHANGED <<queue_vars, server_vars, client_vars, recv_vars>>

NextProcessing ==
    \/ \E database \in InitialDatabases : HowSetup(database)
    \/ \E entries \in Responses : HowReceive(entries)

SpecProcessing == Init /\ [][NextProcessing]_vars

\* ==== claims ====================================================================

payloads_of(entries) == [k \in 1..Len(entries) |-> entries[k].entry]

\* C1 (FIFO): while no lease has timed out and no call was throttled, the
\* entries returned by all Get and Dequeue calls so far, concatenated, are the
\* first items passed to add_to_queue, in arrival order, each once; when no
\* visible entry is left they are all of them.
C1_Fifo ==
    undisturbed =>
        /\ Len(delivered) <= Len(enqueued)
        /\ \A k \in 1..Len(delivered) : delivered[k].id = k
        /\ payloads_of(delivered) = SubSeq(enqueued, 1, Len(delivered))
        /\ (length_visible_queue(queue) = 0 => payloads_of(delivered) = enqueued)

\* three items, returned by a Get and by a Dequeue, the backlog drained
C1_Witness ==
    /\ undisturbed
    /\ Len(delivered) = 3
    /\ length_visible_queue(queue) = 0
    /\ \E i, j \in 1..Len(delivered) : delivered[i].receipt # 0 /\ delivered[j].receipt = 0
    /\ \E i, j \in 1..Len(enqueued) : enqueued[i] # enqueued[j]

\* C2 (conservation): entries in the queue (visible or leased) + entries
\* returned by Dequeue + Deletes answered 204 = items passed to add_to_queue.
C2_Conservation ==
    Len(queue) + removed_by_dequeue + removed_by_delete = Len(enqueued)

\* one entry dequeued, one deleted, one still queued, after a lease timed out
C2_Witness ==
    /\ removed_by_dequeue > 0
    /\ removed_by_delete > 0
    /\ Len(queue) > 0
    /\ timed_out_receipts # <<>>

\* positions of the active leases taken on the queue entry with this arrival position
leases_on(hq, id) == {i \in 1..Len(hq) : hq[i].id = id}

\* C3 (lease exclusivity): an entry that a Get returns is under exactly one
\* active lease, the one this Get created (no lease of an earlier Get is still
\* active on it), and an entry that a Dequeue returns is under no active lease.
C3_LeaseExclusive ==
    resp.status = 200 =>
        \A k \in 1..Len(resp.entries) :
            Cardinality(leases_on(hidden_queue, resp.entries[k].id))
                = IF resp.op = "get" THEN 1 ELSE 0

\* a Get or Dequeue call is served in this step
Poll == wireq_get_operation \/ wireq_dequeue_operation

\* C4 (expiry reinstatement): when a Get or Dequeue is called while an active
\* lease is older than receipt_lifetime_duration, the call ends that lease and
\* its entry is visible in the queue afterwards or is among the entries the call
\* returns, and a Get returns it with a receipt different from the expired one.
C4_Reinstated ==
    [][Poll =>
        \A i \in 1..Len(hidden_queue) :
            timed_out(hidden_queue[i], clock) =>
                /\ hidden_queue[i] \notin Range(hidden_queue')
                /\ \/ \E j \in 1..Len(queue') :
                          queue'[j].id = hidden_queue[i].id /\ queue'[j].visible
                   \/ \E k \in 1..Len(resp'.entries) :
                          /\ resp'.entries[k].id = hidden_queue[i].id
                          /\ resp'.entries[k].receipt # hidden_queue[i].receipt]_vars

ids_of(q) == [k \in 1..Len(q) |-> q[k].id]

NoDuplicates(list) == \A a, b \in 1..Len(list) : a # b => list[a] # list[b]

\* C5 (idempotent delete): no receipt is recorded as deleted twice, a receipt in
\* the deleted set stays in it, and a Delete with a receipt that is in the
\* deleted set is answered 410 and leaves the entries of the queue and the
\* deleted set as they are.
C5_IdempotentDelete ==
    [][/\ NoDuplicates(deleted_urls')
       /\ Range(deleted_urls) \subseteq Range(deleted_urls')
       /\ \A key \in DeleteKeys :
            (wireq_delete_operation(key) /\ key \in Range(deleted_urls)) =>
                /\ resp'.status = 410
                /\ ids_of(queue') = ids_of(queue)
                /\ deleted_urls' = deleted_urls]_vars

\* the active lease with this receipt is older than receipt_lifetime_duration
lease_timed_out(key) ==
    \E i \in 1..Len(hidden_queue) :
        hidden_queue[i].receipt = key /\ timed_out(hidden_queue[i], clock)

\* C6 (Delete against expiry): no receipt is both in the deleted set and in the
\* timed-out set; after an answered Delete with an issued receipt the receipt is
\* in one of the two; a Delete called when the lease of its receipt is older than
\* receipt_lifetime_duration is answered 410 with the receipt timed out, and
\* removes nothing.
C6_DeleteOrExpired ==
    [][/\ Range(deleted_urls') \cap Range(timed_out_receipts') = {}
       /\ \A key \in DeleteKeys :
            wireq_delete_operation(key) =>
                /\ (key # 0 /\ resp'.error = "none") =>
                       key \in Range(deleted_urls') \cup Range(timed_out_receipts')
                /\ lease_timed_out(key) =>
                       /\ resp'.status = 410
                       /\ key \in Range(timed_out_receipts')
                       /\ ids_of(queue') = ids_of(queue)]_vars

\* number of invisible queue entries with this payload
invisible_with(q, entry) ==
    Cardinality({j \in 1..Len(q) : q[j].entry = entry /\ ~q[j].visible})

\* C7 (classification of Delete): with the timed-out set as it is after
\* reclamation, a Delete is answered 410 for a receipt in the deleted set, else
\* 410 for one in the timed-out set, else 404 for one of no active lease, else
\* 204; the 204 takes one invisible entry with the payload of the lease out of
\* the queue, ends the lease and puts the receipt into the deleted set.
C7_DeleteClassification ==
    [][\A key \in DeleteKeys :
        wireq_delete_operation(key) =>
            IF key \in Range(deleted_urls) THEN resp'.status = 410
            ELSE IF key \in Range(timed_out_receipts') THEN resp'.status = 410
            ELSE IF key \notin receipt_keys(hidden_queue) THEN resp'.status = 404
            ELSE /\ resp'.status = 204
                 /\ \A i \in 1..Len(hidden_queue) :
                        hidden_queue[i].receipt = key =>
                            /\ hidden_queue[i] \notin Range(hidden_queue')
                            /\ invisible_with(queue', hidden_queue[i].entry)
                                 = invisible_with(queue, hidden_queue[i].entry) - 1
                 /\ Len(queue') = Len(queue) - 1
                 /\ key \in Range(deleted_urls')]_vars

\* C8 (throttle threshold, as claimed): a Get or Dequeue called when
\* max_requests_per_minute earlier calls were answered 200 less than 60 seconds
\* ago, i.e. the (N+1)-th call of the window, is answered 429.
C8_NextCallRejected ==
    [][Poll =>
        ((/\ Len(admitted_polls) = max_requests_per_minute
          /\ \A k \in 1..Len(admitted_polls) : clock - admitted_polls[k] < RateWindow)
            => resp'.status = 429)]_vars

\* every flag change of a queue is from invisible to visible
only_shown(old, new) ==
    /\ ids_of(new) = ids_of(old)
    /\ payloads_of(new) = payloads_of(old)
    /\ \A k \in 1..Len(old) : old[k].visible => new[k].visible

\* C9 (as claimed): a Get or Dequeue answered 429 leaves the queue entries and
\* their visible flags, the active leases, the deleted set and the timed-out set
\* as they were and records no timestamp, also when a lease is older than
\* receipt_lifetime_duration at the call.
C9_ThrottledChangesNothing ==
    [][(Poll /\ resp'.status = 429) =>
        /\ queue' = queue
        /\ hidden_queue' = hidden_queue
        /\ deleted_urls' = deleted_urls
        /\ timed_out_receipts' = timed_out_receipts
        /\ Len(request_timestamps') <= Len(request_timestamps)]_vars

\* C9 (amended): a Get or Dequeue answered 429 removes no entry, hides no
\* entry, creates no lease, issues no receipt, adds nothing to the deleted set
\* and records no timestamp (it drops the timestamps that are 60 seconds old or
\* older); the leases it ends are older than receipt_lifetime_duration and their
\* receipts are what it adds to the timed-out set; and when no active lease is
\* older than receipt_lifetime_duration, queue, leases and timed-out set are as
\* they were.
C9_ThrottledOnlyReclaims ==
    [][(Poll /\ resp'.status = 429) =>
        /\ only_shown(queue, queue')
        /\ deleted_urls' = deleted_urls
        /\ issued' = issued
        /\ request_timestamps' =
              SelectSeq(request_timestamps, LAMBDA t : clock - t < RateWindow)
        /\ Range(hidden_queue') \subseteq Range(hidden_queue)
        /\ \A h \in Range(hidden_queue) \ Range(hidden_queue') : timed_out(h, clock)
        /\ Range(timed_out_receipts') =
              Range(timed_out_receipts) \cup
              {h.receipt : h \in Range(hidden_queue) \ Range(hidden_queue')}
        /\ ~any_timed_out(hidden_queue, clock) =>
              /\ queue' = queue
              /\ hidden_queue' = hidden_queue
              /\ timed_out_receipts' = timed_out_receipts]_vars

\* a call was answered 429 while entries are queued, one of them visible again
\* after its lease timed out, and a lease is active
C9_Witness ==
    /\ resp.status = 429
    /\ timed_out_receipts # <<>>
    /\ hidden_queue # <<>>
    /\ length_visible_queue(queue) > 0

\* C10 (throttled answer): an answer with status 429 is the answer to a Get or
\* a Dequeue, has no entries and carries retry_after_too_many_requests, which is
\* neither the hint of a drained backlog nor the hint of more data.
C10_ThrottledAnswer ==
    resp.status = 429 =>
        /\ resp.op \in {"get", "dequeue"}
        /\ resp.entries = <<>>
        /\ resp.retry_after = retry_after_too_many_requests
        /\ resp.retry_after \notin {retry_after, retry_after_more_data}

\* a Get was answered 429 although a visible entry is queued
C10_Witness ==
    /\ resp.op = "get"
    /\ resp.status = 429
    /\ length_visible_queue(queue) > 0

\* C11 (pacing hint): a Get or Dequeue answered 200 carries retry_after exactly
\* when no visible entry is left in the queue after the call (also when none
\* was there before), and retry_after_more_data exactly when at least one
\* visible entry is left.
C11_PacingHint ==
    (resp.op \in {"get", "dequeue"} /\ resp.status = 200) =>
        /\ resp.retry_after \in {retry_after, retry_after_more_data}
        /\ (resp.retry_after = retry_after) = (length_visible_queue(queue) = 0)
        /\ (resp.retry_after = retry_after_more_data) = (length_visible_queue(queue) > 0)

\* three items with cap 2: the first poll took two with the more-data hint, this
\* Dequeue takes the last one and carries the drained hint
C11_Witness ==
    /\ resp.op = "dequeue"
    /\ resp.status = 200
    /\ resp.retry_after = retry_after
    /\ Len(resp.entries) = 1
    /\ Len(enqueued) = 3
    /\ queue = <<>>
    /\ hidden_queue = <<>>
    /\ removed_by_dequeue = 3

\* receipts the queue holds: of active leases, deleted, timed out
known_receipts ==
    receipt_keys(hidden_queue) \cup Range(deleted_urls) \cup Range(timed_out_receipts)

\* C12 (receipt uniqueness): the receipts a Get returns differ from each other
\* and from every receipt issued before (those of active leases, the deleted
\* and the timed-out ones), so no two active leases share a receipt; and a
\* Delete with a receipt that has timed out is never answered 204, removes no
\* entry and ends no lease that is not older than receipt_lifetime_duration.
C12_ReceiptsUnique ==
    [][/\ wireq_get_operation =>
            /\ \A k \in 1..Len(resp'.entries) :
                   /\ resp'.entries[k].receipt \notin known_receipts \cup (1..issued)
                   /\ \A j \in 1..Len(resp'.entries) :
                          j # k => resp'.entries[j].receipt # resp'.entries[k].receipt
            /\ \A a, b \in 1..Len(hidden_queue') :
                   a # b => hidden_queue'[a].receipt # hidden_queue'[b].receipt
       /\ \A key \in DeleteKeys :
            (wireq_delete_operation(key) /\ key \in Range(timed_out_receipts')) =>
                /\ resp'.status # 204
                /\ ids_of(queue') = ids_of(queue)
                /\ deleted_urls' = deleted_urls
                /\ \A i \in 1..Len(hidden_queue) :
                       ~timed_out(hidden_queue[i], clock) =>
                           hidden_queue[i] \in Range(hidden_queue')]_vars

\* the only entry was leased, its lease timed out, it is leased again under a
\* new receipt, and a Delete with the old receipt was answered 410
C12_Witness ==
    /\ resp.op = "delete"
    /\ resp.status = 410
    /\ resp.key \in Range(timed_out_receipts)
    /\ Len(queue) = 1
    /\ Len(hidden_queue) = 1
    /\ hidden_queue[1].receipt # resp.key
    /\ ~queue[1].visible

\* number of active leases on this payload
leases_with(hq, entry) == Cardinality({i \in 1..Len(hq) : hq[i].entry = entry})

\* C13 (lease invariant): for every payload the queue has as many invisible
\* entries as there are active leases on it, so the number of active leases
\* equals the number of invisible entries, and every active lease is on an
\* entry that is in the queue and invisible.
C13_LeaseInvariant ==
    /\ \A entry \in Payloads :
           leases_with(hidden_queue, entry) = invisible_with(queue, entry)
    /\ \A i \in 1..Len(hidden_queue) :
           \E j \in 1..Len(queue) :
               queue[j].entry = hidden_queue[i].entry /\ ~queue[j].visible

\* C14 (rejected Delete): a Delete answered 410 or 404 takes no entry out of
\* the queue and hides none (the queue has the same entries in the same order),
\* and leaves the deleted set as it was; after a Delete with a timed-out
\* receipt the queue is as long as before.
C14_RejectedDeleteRemovesNothing ==
    [][\A key \in DeleteKeys :
        (wireq_delete_operation(key) /\ resp'.status \in {404, 410}) =>
            /\ only_shown(queue, queue')
            /\ Len(queue') = Len(queue)
            /\ deleted_urls' = deleted_urls
            /\ removed_by_delete' = removed_by_delete]_vars

\* a Delete with a receipt whose lease timed out was answered 410 and the
\* entry is in the queue, visible again
C14_Witness ==
    /\ resp.op = "delete"
    /\ resp.status = 410
    /\ resp.key \in Range(timed_out_receipts)
    /\ resp.key \notin Range(deleted_urls)
    /\ Len(queue) = Len(enqueued)
    /\ length_visible_queue(queue) > 0
    /\ removed_by_delete = 0

\* C15 (per-call cap): a Get or Dequeue answered 200 returns exactly
\* min(v, max_items_returned) entries, v being the number of visible entries
\* after reclamation (the visible entries left after the call plus the returned
\* ones); never more than max_items_returned, and exactly max_items_returned
\* when the answer carries the more-data hint.
C15_PerCallCap ==
    [][(Poll /\ resp'.status = 200) =>
        LET v == length_visible_queue(
                     check_hidden_entry_lifetime(queue, hidden_queue, timed_out_receipts,
                                                 clock).queue)
        IN /\ Len(resp'.entries) = Min(v, max_items_returned)
           /\ v = length_visible_queue(queue') + Len(resp'.entries)
           /\ Len(resp'.entries) <= max_items_returned
           /\ resp'.retry_after = retry_after_more_data =>
                  Len(resp'.entries) = max_items_returned]_vars

\* a Get found three visible entries, returned max_items_returned of them with
\* the more-data hint and left one visible
C15_Witness ==
    /\ resp.op = "get"
    /\ resp.status = 200
    /\ resp.retry_after = retry_after_more_data
    /\ Len(resp.entries) = max_items_returned
    /\ Len(queue) = 3
    /\ length_visible_queue(queue) = 1

\* C16 (Enqueue frame): add_to_queue puts the items behind all entries of the
\* queue, visible, in the order passed, and leaves the entries that were there,
\* their flags, the leases, both receipt sets, the rate window and the receipt
\* generator as they were; and a Get or Dequeue answered 200 returns entries in
\* arrival order and leaves no visible entry behind that arrived before one it
\* returns, so items enqueued later are delivered after the earlier ones.
C16_EnqueueFrame ==
    [][/\ \A entries \in Batches :
            Enqueue(entries) =>
                /\ queue' = queue \o [k \in 1..Len(entries) |->
                                         [id |-> Len(enqueued) + k, entry |-> entries[k],
                                          visible |-> TRUE]]
                /\ UNCHANGED <<hidden_queue, deleted_urls, timed_out_receipts,
                               request_timestamps, issued, clock>>
       /\ (Poll /\ resp'.status = 200) =>
            /\ \A j, k \in 1..Len(resp'.entries) :
                   j < k => resp'.entries[j].id < resp'.entries[k].id
            /\ \A k \in 1..Len(resp'.entries) :
                   \A i \in 1..Len(queue') :
                       queue'[i].visible => queue'[i].id > resp'.entries[k].id]_vars

\* the second item was enqueued after the Dequeue that returned the first and
\* is returned by this Dequeue; no Get was ever called
C16_Witness ==
    /\ resp.op = "dequeue"
    /\ resp.status = 200
    /\ Len(resp.entries) = 1
    /\ resp.entries[1].id = 2
    /\ removed_by_dequeue = 2
    /\ issued = 0
    /\ max_items_returned >= 2

\* C17 (server and mock are the same queue): after every request the answer of
\* RequestHandler and the answer of MockQueue have the same status, the same
\* payloads in the same order and the same retry-after value (both raise or
\* neither does).
C17_SameAnswers ==
    /\ server_resp.status = resp.status
    /\ payloads_of(server_resp.entries) = payloads_of(resp.entries)
    /\ server_resp.retry_after = resp.retry_after
    /\ server_resp.error = resp.error

\* a GET /entries.json or a POST /dequeue-entries.json is served in this step
ServerPoll == server_wireq_get_operation \/ server_wireq_dequeue_operation

\* C18 (the server's rate window spans requests): when the handlers of earlier
\* requests have recorded more than max_requests_per_minute timestamps that
\* are younger than 60 seconds, the next GET /entries.json or POST
\* /dequeue-entries.json that the server answers is answered 429.
C18_ServerThrottles ==
    [][(ServerPoll /\ server_resp'.error = "none") =>
        (Len(valid_timestamps(server_recorded, clock)) > max_requests_per_minute
            => server_resp'.status = 429)]_vars

\* the number of entries that polls from now on can receive before the rate
\* limit rejects one, when no recorded timestamp leaves the window meanwhile
admitted_calls(ts, current_time) ==
    IF too_many_requests(ts, current_time) THEN 0
    ELSE (max_requests_per_minute - Len(valid_timestamps(ts, current_time)))
             \div max_items_returned + 1

admitted_entries(ts, current_time) == max_items_returned * admitted_calls(ts, current_time)

\* the client polls the queue of the mock, the queue holds more visible
\* entries than the rate limit admits, and the polls the limit admits, ten
\* seconds apart, all fall into the window of the timestamps recorded so far
MoreThanAdmitted ==
    /\ client_pc = "polling"
    /\ post_status(dequeue_url(client_base_url)) = 0
    /\ length_visible_queue(queue) > admitted_entries(request_timestamps, clock)
    /\ LET last_poll == clock + admitted_calls(request_timestamps, clock)
                                   * retry_after_more_data
       IN /\ last_poll <= ClientMaxTime
          /\ last_poll - clock < RateWindow
          /\ \A k \in 1..Len(request_timestamps) :
                 clock - request_timestamps[k] < RateWindow
                     => last_poll - request_timestamps[k] < RateWindow

EndedBy429 ==
    /\ client_pc = "stopped"
    /\ client_error = "HTTPError"
    /\ resp.status = 429
    /\ length_visible_queue(queue) > 0

C20_WaitsAfter429 ==
    [][(ClientPoll /\ resp'.status = 429) =>
        /\ client_pc' = "sleeping"
        /\ client_wait' = retry_after_too_many_requests
        /\ client_error' = "none"]_vars

\* C21: the receiver sends Delete for an entry only if the importer has
\* imported that entry: every entry a Delete was sent for is among the
\* imported entries.
C21_DeleteOnlyImported ==
    \A k \in 1..Len(recv_deletes) : recv_deletes[k].entry \in Range(recv_imported)

RECURSIVE first_arrivals(_)
first_arrivals(s) ==
    IF s = <<>> THEN <<>>
    ELSE LET before == SubSeq(s, 1, Len(s) - 1)
         IN IF s[Len(s)] \in Range(before)
            THEN first_arrivals(before)
            ELSE Append(first_arrivals(before), s[Len(s)])

\* the receiver runs against the URL of the queue
ReceiverRuns ==
    /\ recv_pc # "idle"
    /\ get_status(entries_url(recv_base_url)) = 0

\* the queue is empty and the importer holds every enqueued entry once, in
\* arrival order
Drained ==
    /\ queue = <<>>
    /\ recv_imported = first_arrivals(enqueued)

\* C23: end-to-end drain.  With an importer that always succeeds (and so no
\* lease that expires), a running receiver reaches, again and again, a state
\* in which the queue is empty and every enqueued entry has been imported
\* exactly once, in arrival order.  A throttled poll only delays this.
C23_Drain == ReceiverRuns ~> Drained

\* three entries were enqueued, imported in arrival order and deleted, and a
\* poll was throttled on the way
C23_Witness ==
    /\ Len(enqueued) = MaxEnqueued
    /\ Drained
    /\ Range(recv_imported) = Payloads
    /\ ~recv_import_failed
    /\ timed_out_receipts = <<>>
    /\ [op |-> "get", status |-> 429] \in recv_skipped

\* C24: pre-filtering is transparent.  After any sequence of responses, the
\* database of the run that passes each response through
\* keep_only_latest_versions equals the database of the run that processes
\* each response unfiltered (same initial database, seen empty at the start).
C24_FilterTransparent == my_database_2 = my_database

\* a is newer than b: by version, then version_created, then updated
newer(a, b) ==
    \/ a.version > b.version
    \/ a.version = b.version /\ a.version_created > b.version_created
    \/ a.version = b.version /\ a.version_created = b.version_created
           /\ a.updated > b.updated

\* what the claim says about one received entry
RECURSIVE processed_as_claimed(_, _, _)
processed_as_claimed(entries, database, seen_set) ==
    IF entries = <<>> THEN [database |-> database, seen |-> seen_set]
    ELSE LET st == processed_as_claimed(SubSeq(entries, 1, Len(entries) - 1), database,
                                        seen_set)
             entry == entries[Len(entries)]
         IN IF entry.entry_id \in st.seen THEN st
            ELSE IF entry.urn \notin DOMAIN st.database
            THEN [database |-> st.database @@ (entry.urn :> entry),
                  seen |-> st.seen \cup {entry.entry_id}]
            ELSE IF newer(entry, st.database[entry.urn])
            THEN [database |-> [st.database EXCEPT ![entry.urn] = entry],
                  seen |-> st.seen \cup {entry.entry_id}]
            ELSE [st EXCEPT !.seen = @ \cup {entry.entry_id}]

\* C25: process_wireq_entries inserts an entry whose urn is not in the
\* database, replaces the entry of an urn only by a received entry that is
\* newer (version, then version_created, then updated) and skips an entry
\* whose entry_id was received before; so no urn leaves the database and the
\* stored entry of an urn is never replaced by an older one.
C25_ReplacesOnlyNewer ==
    [][responses_done' = responses_done + 1 =>
          /\ my_database' = processed_as_claimed(last_response', my_database, seen).database
          /\ \A urn \in DOMAIN my_database :
                 /\ urn \in DOMAIN my_database'
                 /\ ~newer(my_database[urn], my_database'[urn])]_vars

\* the timestamps of ts that are younger than a minute at time t
younger_than_a_minute(ts, t) == SelectSeq(ts, LAMBDA x : t - x < RateWindow)

C27_ThrottlingEnds ==
    [][(Poll /\ resp'.error = "none") =>
          /\ (\A i \in 1..Len(request_timestamps) :
                  clock - request_timestamps[i] >= RateWindow) => resp'.status = 200
          /\ resp'.status = 429 =>
                 /\ Range(request_timestamps') \subseteq Range(request_timestamps)
                 /\ Len(request_timestamps') <= Len(request_timestamps)]_vars

\* a Dequeue is admitted a minute after the timestamps that had an earlier
\* Dequeue rejected (no Get was ever called, so only a rejected call can have
\* ended the undisturbed run)
C27_Witness ==
    /\ resp.op = "dequeue"
    /\ resp.status = 200
    /\ resp.entries # <<>>
    /\ issued = 0
    /\ ~undisturbed
    /\ clock >= RateWindow
    /\ \A i \in 1..Len(request_timestamps) : request_timestamps[i] = clock

\* C28 (rate-window bound): after any Get or Dequeue the queue holds at most
\* max_requests_per_minute + max_items_returned timestamps, and every
\* timestamp it holds after an answered Get or Dequeue is younger than 60
\* seconds at the time of that call.
C28_RateWindowBound ==
    [][Poll =>
          /\ Len(request_timestamps') <= max_requests_per_minute + max_items_returned
          /\ resp'.error = "none" =>
                 \A i \in 1..Len(request_timestamps') :
                     clock - request_timestamps'[i] < RateWindow]_vars

\* a Get filled the window to its bound: a timestamp of an earlier call that
\* survived the pruning and max_items_returned new ones
C28_Witness ==
    /\ resp.op = "get"
    /\ resp.status = 200
    /\ Len(request_timestamps) = max_requests_per_minute + max_items_returned
    /\ request_timestamps[1] < clock
    /\ clock - request_timestamps[1] < RateWindow

\* the arrival positions of the entries a Get or Dequeue called now has to
\* choose from: the visible entries and the entries whose lease has expired
expired_ids == {hidden_queue[i].id : i \in {j \in 1..Len(hidden_queue) :
                                              timed_out(hidden_queue[j], clock)}}

offered_ids == {queue[i].id : i \in {j \in 1..Len(queue) :
                                       queue[j].visible \/ queue[j].id \in expired_ids}}

\* C29 (oldest arrival first, reclaimed entries included): an answered Get or
\* Dequeue returns, in arrival order, the entries with the smallest arrival
\* positions among the visible entries and the entries whose lease has
\* expired; an entry keeps its arrival position while it is leased, so the
\* queue always lists its entries in arrival order.
C29_OldestArrivalFirst ==
    [][(Poll /\ resp'.status = 200) =>
          LET served == ids_of(resp'.entries)
          IN /\ Len(served) = Min(max_items_returned, Cardinality(offered_ids))
             /\ Range(served) \subseteq offered_ids
             /\ \A k \in 1..(Len(served) - 1) : served[k] < served[k + 1]
             /\ \A a \in offered_ids \ Range(served) : \A k \in 1..Len(served) : served[k] < a
             /\ \A i \in 1..(Len(queue') - 1) : queue'[i].id < queue'[i + 1].id]_vars

\* the positions in hidden_queue of the leases that have expired now
expired_leases == {i \in 1..Len(hidden_queue) : timed_out(hidden_queue[i], clock)}

\* the entry with arrival position n is in the queue q with the given flag
listed(q, n, visible) == \E j \in 1..Len(q) : q[j].id = n /\ q[j].visible = visible

\* C30 (reclamation touches the expired lease only): the reclamation a Get or
\* Dequeue starts with moves exactly the receipts of the expired leases to the
\* timed-out set and ends exactly those leases, makes the entry of each of
\* them available to the call (visible afterwards, or returned by it), and
\* leaves every lease that has not expired in place with its entry invisible,
\* also when another entry of the queue has the same payload.
C30_ReclaimExact ==
    [][Poll =>
          /\ Range(timed_out_receipts') =
                 Range(timed_out_receipts) \cup {hidden_queue[i].receipt : i \in expired_leases}
          /\ \A i \in expired_leases :
                 /\ hidden_queue[i] \notin Range(hidden_queue')
                 /\ listed(queue, hidden_queue[i].id, FALSE) =>
                        \/ listed(queue', hidden_queue[i].id, TRUE)
                        \/ hidden_queue[i].id \in Range(ids_of(resp'.entries))
          /\ \A i \in (1..Len(hidden_queue)) \ expired_leases :
                 /\ hidden_queue[i] \in Range(hidden_queue')
                 /\ listed(queue, hidden_queue[i].id, FALSE) =>
                        listed(queue', hidden_queue[i].id, FALSE)]_vars

\* C31 (totality and atomicity): every operation ends with a classified
\* result, none raises; and no state shows a half-applied operation: no entry
\* is visible while a lease on it is active, and every receipt whose lease is
\* gone is recorded as deleted or as timed out.
C31_TotalAndAtomic ==
    /\ resp.error = "none"
    /\ \A i \in 1..Len(hidden_queue) : ~listed(queue, hidden_queue[i].id, TRUE)
    /\ \A receipt \in 1..issued :
           \/ receipt \in receipt_keys(hidden_queue)
           \/ receipt \in Range(deleted_urls)
           \/ receipt \in Range(timed_out_receipts)

\* C32 (receipt bookkeeping is a partition): after every step the receipts of
\* the active leases, the deleted receipts and the timed-out receipts are
\* pairwise disjoint, none is listed twice, together they are exactly the
\* receipts issued so far, and no receipt has left the deleted or the
\* timed-out list.
C32_ReceiptPartition ==
    [][LET active == receipt_keys(hidden_queue')
           deleted == Range(deleted_urls')
           expired == Range(timed_out_receipts')
       IN /\ active \cap deleted = {}
          /\ active \cap expired = {}
          /\ deleted \cap expired = {}
          /\ active \cup deleted \cup expired = 1..issued'
          /\ Cardinality(active) = Len(hidden_queue')
          /\ Cardinality(deleted) = Len(deleted_urls')
          /\ Cardinality(expired) = Len(timed_out_receipts')
          /\ Range(deleted_urls) \subseteq deleted
          /\ Range(timed_out_receipts) \subseteq expired]_vars

\* of two receipts issued one was deleted and the other has timed out; a
\* later call has been made with both recorded
C32_Witness ==
    /\ issued = 2
    /\ Len(deleted_urls) = 1
    /\ Len(timed_out_receipts) = 1
    /\ hidden_queue = <<>>
    /\ resp.op = "delete"
    /\ resp.status = 410

\* C33 (Get never alters the stored payload): every entry kept in the queue is
\* the item as it was enqueued at its arrival position, with no receipt in it;
\* a Get returns copies of the stored items that carry the receipts it has
\* just drawn, one each, and a Dequeue returns the stored items without a
\* receipt, also for items that a Get had delivered before.
C33_StoredPayloadUntouched ==
    [][/\ \A j \in 1..Len(queue') :
              /\ DOMAIN queue'[j] = {"id", "entry", "visible"}
              /\ queue'[j].entry = enqueued'[queue'[j].id]
       /\ (Poll /\ resp'.status = 200) =>
              \A k \in 1..Len(resp'.entries) :
                  /\ resp'.entries[k].entry = enqueued[resp'.entries[k].id]
                  /\ resp'.op = "dequeue" => resp'.entries[k].receipt = 0
                  /\ resp'.op = "get" => resp'.entries[k].receipt = issued + k]_vars

\* the only entry ever enqueued was delivered by a Get, its lease expired,
\* and a Dequeue has returned it without a receipt
C33_Witness ==
    /\ Len(enqueued) = 1
    /\ issued = 1
    /\ timed_out_receipts = <<1>>
    /\ resp.op = "dequeue"
    /\ resp.status = 200
    /\ Len(resp.entries) = 1
    /\ resp.entries[1].receipt = 0
    /\ resp.entries[1].entry = enqueued[1]

\* the age of a lease at the time of a call made now
age(h_entry) == clock - h_entry.timestamp

\* C34 (expiry boundary): no call ends a lease whose age is at most
\* receipt_lifetime_duration, except the Delete that is answered 204 for its
\* receipt; a Delete with the receipt of a lease of that age is answered 204,
\* and a Delete with the receipt of an older lease is answered 410 and leaves
\* the entry visible.
C34_ExpiryBoundary ==
    [][\A i \in 1..Len(hidden_queue) :
          LET h_entry == hidden_queue[i]
              deleting == \E key \in DeleteKeys :
                              wireq_delete_operation(key) /\ key = h_entry.receipt
          IN /\ (age(h_entry) <= receipt_lifetime_duration /\ ~deleting) =>
                     h_entry \in Range(hidden_queue')
             /\ (age(h_entry) <= receipt_lifetime_duration /\ deleting) =>
                     /\ resp'.status = 204
                     /\ h_entry \notin Range(hidden_queue')
             /\ (age(h_entry) > receipt_lifetime_duration /\ deleting) =>
                     /\ resp'.status = 410
                     /\ listed(queue', h_entry.id, TRUE)]_vars

\* an answered Get or Dequeue that carries the more-data hint
MoreDataHinted ==
    /\ Poll
    /\ resp'.status = 200
    /\ resp'.retry_after = retry_after_more_data

\* C35 as stated (more-data hint only above the cap): a Get or Dequeue
\* carries retry_after_more_data only when the visible entries left after the
\* call are more than max_items_returned.
C35_MoreDataOnlyAboveCap ==
    [][MoreDataHinted => length_visible_queue(queue') > max_items_returned]_vars

\* C35 (more-data hint, as the code gives it): a Get or Dequeue carries
\* retry_after_more_data only when the visible entries at the call were more
\* than max_items_returned: it returns max_items_returned entries and at
\* least one visible entry is left after the call.
C35_MoreDataOnlyWhenLeft ==
    [][MoreDataHinted =>
          /\ Len(resp'.entries) = max_items_returned
          /\ length_visible_queue(queue') >= 1
          /\ length_visible_queue(queue') + Len(resp'.entries) > max_items_returned]_vars

\* a Get took max_items_returned of three visible entries and carries the
\* more-data hint; one visible entry is left, which is not more than the cap
C35_Witness ==
    /\ resp.op = "get"
    /\ resp.status = 200
    /\ resp.retry_after = retry_after_more_data
    /\ Len(resp.entries) = max_items_returned
    /\ length_visible_queue(queue) = 1
    /\ Len(queue) = max_items_returned + 1

\* the importer was invoked for the entry the loop is at, and raised ImportFailed
ImportFails ==
    /\ RecvImport
    /\ Head(recv_entries).entry \notin recv_seen
    /\ recv_imported' = recv_imported

C37_InnerPollsBounded ==
    [][/\ recv_i' < MAX_INNER_POLLS
       /\ recv_i' # recv_i =>
              \/ recv_i' = recv_i + 1 /\ recv_pc' = "inner"
              \/ recv_i' = 0 /\ RecvOuterDelay
       /\ (recv_pc' = "inner" /\ recv_pc # "inner") =>
              /\ recv_i' = recv_i + 1
              /\ recv_response'.status = 200
              /\ recv_response'.retry_after # 0
              /\ recv_entries' = <<>>
       /\ RecvGet =>
              /\ (resp'.error = "none" /\ raise_for_status(resp'.status)) => recv_pc' = "outer"
              /\ (recv_i = MAX_INNER_POLLS - 1 /\ resp'.status = 200 /\ resp'.entries = <<>>) =>
                     recv_pc' = "outer"]_vars

\* the GET of round MAX_INNER_POLLS was answered 200 without entries and with
\* the retry-after hint, and the invocation has ended
C37_Witness ==
    /\ recv_i = MAX_INNER_POLLS - 1
    /\ recv_pc = "outer"
    /\ resp.op = "get"
    /\ resp.status = 200
    /\ resp.entries = <<>>
    /\ resp.retry_after = retry_after

\* C38 (client-side deduplication): an entry_id stays in seen once it is in
\* it; when the loop is at an entry whose entry_id is in seen it does not
\* invoke the importer (nothing is imported, no retry is counted, no time
\* passes) and goes on to delete_from_queue, which sends the Delete with the
\* receipt of the entry as it was delivered this time; so no entry_id is
\* imported twice.
C38_ImportedOnce ==
    [][/\ recv_seen \subseteq recv_seen' \/ RecvStart
       /\ Range(recv_imported') \subseteq recv_seen'
       /\ Cardinality(Range(recv_imported')) = Len(recv_imported')
       /\ (RecvImport /\ Head(recv_entries).entry \in recv_seen) =>
              /\ recv_imported' = recv_imported
              /\ recv_retries' = recv_retries
              /\ recv_import_failed' = recv_import_failed
              /\ clock' = clock
              /\ recv_entries' = recv_entries
              /\ recv_pc' = "delete"
       /\ RecvDelete =>
              /\ resp'.op = "delete"
              /\ resp'.key = Head(recv_entries).receipt
              /\ Head(recv_entries).receipt = recv_response.entries[
                     Len(recv_response.entries) - Len(recv_entries) + 1].receipt]_vars

\* an entry was imported once, its Delete failed, it was delivered again with
\* a new receipt, not imported again, and its second Delete was answered 204
C38_Witness ==
    /\ Len(recv_imported) = 1
    /\ Len(recv_deletes) = 2
    /\ recv_deletes[1].entry = recv_imported[1]
    /\ recv_deletes[2].entry = recv_imported[1]
    /\ recv_deletes[1].receipt # recv_deletes[2].receipt
    /\ [op |-> "delete", status |-> 410] \in recv_skipped
    /\ resp.op = "delete"
    /\ resp.status = 204
    /\ resp.key = recv_deletes[2].receipt

\* C39 (the dequeue client survives transport errors): when the POST of
\* receive_once raises a RequestException, receive_once passes nothing to the
\* store and returns without an exception, and receive_forever goes on to its
\* next poll.
C39_SurvivesTransportError ==
    [][ClientPollUnanswered =>
          /\ client_store' = client_store
          /\ client_error' = "none"
          /\ client_pc' = "polling"]_vars

====
